---- MODULE Spec2Model ----
(***************************************************************************)
(* Asia Cup 2025 backend: the role-aware server (src/server.js, lines      *)
(* 1-418) and the role-less server with a cached connectivity flag         *)
(* (src/unnamed/part_000), as one state machine.  `variant` selects which  *)
(* program runs.  The MySQL server is the environment: it can drop and     *)
(* recover, and it can be switched between read-write and read-only.       *)
(***************************************************************************)
EXTENDS Integers, Sequences, FiniteSets, TLC

VARIABLES
    variant,              \* which program runs: "server" or "part_000"
    APP_ROLE,             \* server.js:24; "n/a" for part_000
    pc,                   \* position of startServer()
    tbl,                  \* index of the table startup is working on (0: none)
    pool,                 \* TRUE when `pool` is a pool object, FALSE when null
    isDatabaseConnected,  \* cached connectivity flag
    isDatabaseReadOnly,   \* cached read-only flag (server.js only)
    connection,           \* startup's checked-out connection: "none", "held", "released"
    dbAlive,              \* the MySQL server answers queries
    dbReadOnly,           \* @@global.read_only of the MySQL server
    tables,               \* tables that exist in the database
    rows,                 \* table name -> sequence of stored rows
    nextId,               \* AUTO_INCREMENT of GroupMatches
    req,                  \* request slot -> the handler invocation in flight
    last,                 \* the response sent most recently
    page,                 \* the frontend (part_001) open in one browser tab
    peer                  \* startServer() of a second instance on the same database

vars == <<variant, APP_ROLE, pc, tbl, pool, isDatabaseConnected, isDatabaseReadOnly,
          connection, dbAlive, dbReadOnly, tables, rows, nextId, req, last, page,
          peer>>

procVars == <<variant, APP_ROLE, pool, isDatabaseConnected, isDatabaseReadOnly>>
dbVars == <<dbAlive, dbReadOnly, tables, rows, nextId>>

----------------------------------------------------------------------------
(* Bounds *)

\* number of requests that can be in flight at once
MaxReq == 2
\* number of match rows POST /api/match may add in one run
MaxInserts == 1

Slots == 1..MaxReq

----------------------------------------------------------------------------
(* Configuration and fixed data *)

Variants == {"server", "part_000"}

\* process.env.APP_ROLE || 'primary': any string; "standby" stands for every
\* value other than the two the code compares against.
Roles == {"primary", "secondary", "standby"}

TableOrder == <<"GroupMatches", "Standings", "PlayerStats">>

Undefined == "undefined"

SeedMatches ==
    << [MatchDate |-> "2025-09-01", Team1 |-> "India", Team2 |-> "Pakistan",
        Venue |-> "Dubai", Stage |-> "Group A"],
       [MatchDate |-> "2025-09-02", Team1 |-> "Sri Lanka", Team2 |-> "Bangladesh",
        Venue |-> "Abu Dhabi", Stage |-> "Group B"],
       [MatchDate |-> "2025-09-03", Team1 |-> "Afghanistan", Team2 |-> "Nepal",
        Venue |-> "Sharjah", Stage |-> "Group A"] >>

SeedStandings ==
    << [TeamName |-> "India", Points |-> 4, GoalDifference |-> 15],
       [TeamName |-> "Pakistan", Points |-> 2, GoalDifference |-> 5],
       [TeamName |-> "Sri Lanka", Points |-> 2, GoalDifference |-> -3],
       [TeamName |-> "Bangladesh", Points |-> 0, GoalDifference |-> -17] >>

SeedPlayers ==
    << [PlayerName |-> "Virat Kohli", Runs |-> 156, Wickets |-> 0],
       [PlayerName |-> "Babar Azam", Runs |-> 128, Wickets |-> 0],
       [PlayerName |-> "Wanindu Hasaranga", Runs |-> 45, Wickets |-> 5] >>

\* the rows a multi-row seed INSERT stores, MatchID assigned from `first`
WithIds(seq, first) ==
    [i \in 1..Len(seq) |->
        [MatchID |-> first + i - 1, MatchDate |-> seq[i].MatchDate,
         Team1 |-> seq[i].Team1, Team2 |-> seq[i].Team2,
         Venue |-> seq[i].Venue, Stage |-> seq[i].Stage]]

SeedRows(t, first) ==
    CASE t = "GroupMatches" -> WithIds(SeedMatches, first)
      [] t = "Standings"    -> SeedStandings
      [] t = "PlayerStats"  -> SeedPlayers

EmptyRows == [t \in {"GroupMatches", "Standings", "PlayerStats"} |-> << >>]

\* request bodies of POST /api/match
Bodies ==
    << [MatchDate |-> "2025-09-04", Team1 |-> "Nepal", Team2 |-> "UAE",
        Venue |-> "Dubai", Stage |-> "Super 4"],
       [MatchDate |-> "2025-09-04", Team1 |-> "Nepal", Team2 |-> "UAE",
        Venue |-> Undefined, Stage |-> Undefined],
       [MatchDate |-> "2025-09-04", Team1 |-> "Nepal", Team2 |-> Undefined,
        Venue |-> Undefined, Stage |-> Undefined],
       [MatchDate |-> Undefined, Team1 |-> "Nepal", Team2 |-> "UAE",
        Venue |-> "Dubai", Stage |-> Undefined],
       [MatchDate |-> "2025-09-04", Team1 |-> "", Team2 |-> "UAE",
        Venue |-> Undefined, Stage |-> Undefined] >>

ReadEndpoints == {"GroupMatches", "Standings", "PlayerStats"}

\* JavaScript truthiness of a request field
Falsy(v) == v \in {Undefined, ""}

IdleReq == [kind |-> "none", pc |-> "idle", ep |-> "", status |-> "", httpStatus |-> 0,
            body |-> 0, calls |-> 0]

\* a response; dbState and rowsBefore record the database as it was when the
\* response was sent
NoResponse == [kind |-> "none", ep |-> "", code |-> 0, status |-> "", test |-> "",
               calls |-> 0, body |-> 0, matchId |-> 0, data |-> << >>,
               error |-> "", dbState |-> "", rowsBefore |-> 0]

\* the frontend before the browser has loaded it: no timer, empty containers
PageClosed ==
    [pc |-> "closed", timer |-> "off", region |-> "", error |-> FALSE,
     shown |-> [t \in {"GroupMatches", "Standings", "PlayerStats"} |->
                   [state |-> "none", rows |-> << >>]]]

\* no second instance has been started
PeerOff == [pc |-> "off", tbl |-> 0]

----------------------------------------------------------------------------
(* Initial state: module load, before startServer() runs *)

Init ==
    /\ variant \in Variants
    /\ APP_ROLE \in (IF variant = "server" THEN Roles ELSE {"n/a"})
    /\ pc = "createPool"
    /\ tbl = 0
    /\ pool = FALSE
    /\ isDatabaseConnected = FALSE
    /\ isDatabaseReadOnly = FALSE
    /\ connection = "none"
    /\ dbAlive \in BOOLEAN
    /\ dbReadOnly \in BOOLEAN
    \* a new database, or one an earlier run (or replication) has populated
    /\ \/ /\ tables = {}
          /\ rows = EmptyRows
          /\ nextId = 1
       \/ /\ tables = {"GroupMatches", "Standings", "PlayerStats"}
          /\ rows = [t \in {"GroupMatches", "Standings", "PlayerStats"} |-> SeedRows(t, 1)]
          /\ nextId = Len(SeedMatches) + 1
    /\ req = [s \in Slots |-> IdleReq]
    /\ last = NoResponse
    /\ page = PageClosed
    /\ peer = PeerOff

----------------------------------------------------------------------------
(* The MySQL server (environment) *)

DbDrop ==
    /\ dbAlive
    /\ dbAlive' = FALSE
    /\ UNCHANGED <<peer, page, procVars, pc, tbl, connection, dbReadOnly, tables, rows, nextId, req, last>>

DbRecover ==
    /\ ~dbAlive
    /\ dbAlive' = TRUE
    /\ UNCHANGED <<peer, page, procVars, pc, tbl, connection, dbReadOnly, tables, rows, nextId, req, last>>

\* e.g. a region failover demotes the server to a read-only replica
DbBecomeReadOnly ==
    /\ ~dbReadOnly
    /\ dbReadOnly' = TRUE
    /\ UNCHANGED <<peer, page, procVars, pc, tbl, connection, dbAlive, tables, rows, nextId, req, last>>

DbBecomeWritable ==
    /\ dbReadOnly
    /\ dbReadOnly' = FALSE
    /\ UNCHANGED <<peer, page, procVars, pc, tbl, connection, dbAlive, tables, rows, nextId, req, last>>

----------------------------------------------------------------------------
(* Startup: startServer() -> initializeDatabase() / initializeDatabaseConnection() *)

\* a catch block that gives up: process.exit(1) instead of returning false
InitCatch_Exits ==
    /\ isDatabaseConnected' = FALSE
    /\ pc' = "exited"
    /\ tbl' = 0

\* the catch block of initializeDatabase / initializeDatabaseConnection
InitCatch ==
    /\ isDatabaseConnected' = FALSE
    /\ pc' = "listen"
    /\ tbl' = 0

\* table creation and seeding are over and did not throw to the caller
InitDone ==
    /\ pc' = "listen"
    /\ tbl' = 0
    /\ IF variant = "part_000"
       THEN connection' = "released" /\ isDatabaseConnected' = TRUE
       ELSE UNCHANGED <<connection, isDatabaseConnected>>

\* pool = mysql.createPool(dbConfig): builds the pool object without connecting
CreatePool ==
    /\ pc = "createPool"
    /\ pool' = TRUE
    /\ pc' = "getConnection"
    /\ UNCHANGED <<tbl, isDatabaseConnected>>
    /\ UNCHANGED <<peer, page, variant, APP_ROLE, isDatabaseReadOnly, connection, dbVars, req, last>>

\* const connection = await pool.getConnection()
GetConnection ==
    /\ pc = "getConnection"
    /\ IF dbAlive
       THEN /\ connection' = "held"
            /\ IF variant = "server"
               THEN pc' = "readOnlyQuery" /\ tbl' = 0
               ELSE pc' = "create" /\ tbl' = 1
            /\ UNCHANGED isDatabaseConnected
       ELSE /\ InitCatch
            /\ UNCHANGED connection
    /\ UNCHANGED <<peer, page, variant, APP_ROLE, pool, isDatabaseReadOnly, dbVars, req, last>>

\* SELECT @@global.read_only; release; isDatabaseConnected = true
ReadOnlyQuery ==
    /\ pc = "readOnlyQuery"
    /\ IF dbAlive
       THEN /\ isDatabaseReadOnly' = dbReadOnly
            /\ connection' = "released"
            /\ isDatabaseConnected' = TRUE
            /\ pc' = "create"
            /\ tbl' = 1
       ELSE /\ InitCatch
            /\ UNCHANGED <<isDatabaseReadOnly, connection>>
    /\ UNCHANGED <<peer, page, variant, APP_ROLE, pool, dbVars, req, last>>

\* whether CREATE TABLE IF NOT EXISTS t succeeds: a read-only server refuses
\* DDL; whether it refuses the no-op on a table that exists is left open
CreateOutcomes(t) ==
    IF ~dbAlive THEN {FALSE}
    ELSE IF ~dbReadOnly THEN {TRUE}
    ELSE IF t \in tables THEN {TRUE, FALSE}
    ELSE {FALSE}

\* CREATE TABLE IF NOT EXISTS <TableOrder[tbl]>
CreateTable ==
    /\ pc = "create"
    /\ LET t == TableOrder[tbl]
       IN \E ok \in CreateOutcomes(t) :
            IF ok
            THEN /\ tables' = tables \cup {t}
                 /\ IF tbl < Len(TableOrder)
                    THEN pc' = "create" /\ tbl' = tbl + 1
                    ELSE pc' = "count" /\ tbl' = 1
                 /\ UNCHANGED <<connection, isDatabaseConnected>>
            ELSE /\ UNCHANGED tables
                 /\ IF variant = "server"
                    \* initializeTables logs the error and returns
                    THEN pc' = "listen" /\ tbl' = 0 /\ UNCHANGED isDatabaseConnected
                    \* createTables rethrows to initializeDatabaseConnection
                    ELSE InitCatch
                 /\ UNCHANGED connection
    /\ UNCHANGED <<peer, page, variant, APP_ROLE, pool, isDatabaseReadOnly,
                   dbAlive, dbReadOnly, rows, nextId, req, last>>

\* a seeding step that inserts without looking at the count
NeedsSeed_Always(count) == TRUE

\* insertSampleData: if (rows[0].count === 0)
NeedsSeed(count) == count = 0

\* insertSampleData: SELECT COUNT(*) FROM <TableOrder[tbl]>
CountRows ==
    /\ pc = "count"
    /\ LET t == TableOrder[tbl]
       IN IF dbAlive /\ t \in tables
          THEN IF NeedsSeed(Len(rows[t]))
               THEN pc' = "insert" /\ UNCHANGED <<tbl, connection, isDatabaseConnected>>
               ELSE IF tbl < Len(TableOrder)
                    THEN pc' = "count" /\ tbl' = tbl + 1
                         /\ UNCHANGED <<connection, isDatabaseConnected>>
                    ELSE InitDone
          \* the catch of insertSampleData swallows the error
          ELSE InitDone
    /\ UNCHANGED <<peer, page, variant, APP_ROLE, pool, isDatabaseReadOnly, dbVars, req, last>>

\* whether the seed INSERT into table t succeeds: TeamName is UNIQUE in
\* Standings, and a multi-row INSERT that hits a duplicate key stores no row
SeedInsertOk(t) ==
    /\ dbAlive /\ ~dbReadOnly /\ t \in tables
    /\ t = "Standings" =>
          \A i \in 1..Len(rows[t]) : \A j \in 1..Len(SeedStandings) :
              rows[t][i].TeamName # SeedStandings[j].TeamName

\* insertSampleData: INSERT INTO <TableOrder[tbl]> ... the seed rows
InsertSeed ==
    /\ pc = "insert"
    /\ LET t == TableOrder[tbl]
       IN IF SeedInsertOk(t)
          THEN /\ rows' = [rows EXCEPT ![t] = rows[t] \o SeedRows(t, nextId)]
               /\ nextId' = IF t = "GroupMatches" THEN nextId + Len(SeedMatches) ELSE nextId
               /\ IF tbl < Len(TableOrder)
                  THEN pc' = "count" /\ tbl' = tbl + 1
                       /\ UNCHANGED <<connection, isDatabaseConnected>>
                  ELSE InitDone
          ELSE /\ UNCHANGED <<rows, nextId>>
               /\ InitDone
    /\ UNCHANGED <<peer, page, variant, APP_ROLE, pool, isDatabaseReadOnly,
                   dbAlive, dbReadOnly, tables, req, last>>

\* app.listen(PORT, ...): requests are accepted from here on
Listen ==
    /\ pc = "listen"
    /\ pc' = "serving"
    /\ UNCHANGED <<peer, page, procVars, tbl, connection, dbVars, req, last>>

\* the process is stopped and started again against the same database:
\* every module-level variable is back at its initial value and the requests
\* in flight are gone
Restart ==
    /\ pc = "serving"
    /\ pc' = "createPool"
    /\ tbl' = 0
    /\ pool' = FALSE
    /\ isDatabaseConnected' = FALSE
    /\ isDatabaseReadOnly' = FALSE
    /\ connection' = "none"
    /\ req' = [s \in Slots |-> IdleReq]
    /\ last' = NoResponse
    /\ UNCHANGED <<peer, page, variant, APP_ROLE, dbVars>>

Startup ==
    \/ CreatePool
    \/ GetConnection
    \/ ReadOnlyQuery
    \/ CreateTable
    \/ CountRows
    \/ InsertSeed
    \/ Listen

----------------------------------------------------------------------------
(* A second instance of the same program starting against the same database. *)
(* Only its position in startServer() is kept: its flags and its pool have no *)
(* effect on the database.                                                    *)

PeerAt(p, t) == [pc |-> p, tbl |-> t]

\* where the second instance goes after the step on table number t
PeerAfterTable(p, t) ==
    IF t < Len(TableOrder) THEN PeerAt(p, t + 1) ELSE PeerAt("listen", 0)

\* pool = mysql.createPool(dbConfig)
PeerCreatePool ==
    /\ peer.pc = "createPool"
    /\ peer' = PeerAt("getConnection", 0)
    /\ UNCHANGED <<page, procVars, pc, tbl, connection, dbVars, req, last>>

\* const connection = await pool.getConnection()
PeerGetConnection ==
    /\ peer.pc = "getConnection"
    /\ peer' = IF ~dbAlive THEN PeerAt("listen", 0)
               ELSE IF variant = "server" THEN PeerAt("readOnlyQuery", 0)
               ELSE PeerAt("create", 1)
    /\ UNCHANGED <<page, procVars, pc, tbl, connection, dbVars, req, last>>

\* SELECT @@global.read_only
PeerReadOnlyQuery ==
    /\ peer.pc = "readOnlyQuery"
    /\ peer' = IF dbAlive THEN PeerAt("create", 1) ELSE PeerAt("listen", 0)
    /\ UNCHANGED <<page, procVars, pc, tbl, connection, dbVars, req, last>>

\* CREATE TABLE IF NOT EXISTS <TableOrder[peer.tbl]>
PeerCreateTable ==
    /\ peer.pc = "create"
    /\ LET t == TableOrder[peer.tbl]
       IN \E ok \in CreateOutcomes(t) :
            IF ok
            THEN /\ tables' = tables \cup {t}
                 /\ peer' = IF peer.tbl < Len(TableOrder)
                            THEN PeerAt("create", peer.tbl + 1)
                            ELSE PeerAt("count", 1)
            ELSE /\ UNCHANGED tables
                 /\ peer' = PeerAt("listen", 0)
    /\ UNCHANGED <<page, procVars, pc, tbl, connection, dbAlive, dbReadOnly, rows,
                   nextId, req, last>>

\* insertSampleData: SELECT COUNT(*) FROM <TableOrder[peer.tbl]>
PeerCountRows ==
    /\ peer.pc = "count"
    /\ LET t == TableOrder[peer.tbl]
       IN peer' = IF dbAlive /\ t \in tables
                  THEN IF NeedsSeed(Len(rows[t]))
                       THEN PeerAt("insert", peer.tbl)
                       ELSE PeerAfterTable("count", peer.tbl)
                  \* the catch of insertSampleData swallows the error
                  ELSE PeerAt("listen", 0)
    /\ UNCHANGED <<page, procVars, pc, tbl, connection, dbVars, req, last>>

\* insertSampleData: INSERT INTO <TableOrder[peer.tbl]> ... the seed rows
PeerInsertSeed ==
    /\ peer.pc = "insert"
    /\ LET t == TableOrder[peer.tbl]
       IN IF SeedInsertOk(t)
          THEN /\ rows' = [rows EXCEPT ![t] = rows[t] \o SeedRows(t, nextId)]
               /\ nextId' = IF t = "GroupMatches" THEN nextId + Len(SeedMatches) ELSE nextId
               /\ peer' = PeerAfterTable("count", peer.tbl)
          ELSE /\ UNCHANGED <<rows, nextId>>
               /\ peer' = PeerAt("listen", 0)
    /\ UNCHANGED <<page, procVars, pc, tbl, connection, dbAlive, dbReadOnly, tables,
                   req, last>>

\* app.listen(PORT, ...)
PeerListen ==
    /\ peer.pc = "listen"
    /\ peer' = PeerAt("serving", 0)
    /\ UNCHANGED <<page, procVars, pc, tbl, connection, dbVars, req, last>>

PeerStartup ==
    \/ PeerCreatePool
    \/ PeerGetConnection
    \/ PeerReadOnlyQuery
    \/ PeerCreateTable
    \/ PeerCountRows
    \/ PeerInsertSeed
    \/ PeerListen

----------------------------------------------------------------------------
(* Request handlers.  A handler runs without interruption up to its `await`; *)
(* the awaited query resolves in a later step, so handlers interleave there. *)

\* a startServer that calls app.listen without awaiting the initialization
Serving_NotAwaited == pc \in {"getConnection", "readOnlyQuery", "create", "count",
                              "insert", "listen", "serving"}

\* requests reach the handlers once app.listen has been called
Serving == pc = "serving"

Free(s) == req[s].pc = "idle"

Respond(s, r) ==
    /\ last' = [r EXCEPT !.dbState = IF ~dbAlive THEN "down"
                                       ELSE IF dbReadOnly THEN "read-only"
                                       ELSE "writable",
                          !.rowsBefore = Len(rows["GroupMatches"])]
    /\ req' = [req EXCEPT ![s] = IdleReq]

\* the role rule with the primary's read-only test left out
Classify_PrimaryIgnoresReadOnly(role, connected, readOnly) ==
    IF role \in {"primary", "secondary"} /\ ~connected
    THEN [status |-> "degraded", httpStatus |-> 503]
    ELSE [status |-> "healthy", httpStatus |-> 200]

\* the role rule with the primary's rule applied to the secondary too
Classify_SecondaryNeedsWritable(role, connected, readOnly) ==
    IF role \in {"primary", "secondary"} /\ (~connected \/ readOnly)
    THEN [status |-> "degraded", httpStatus |-> 503]
    ELSE [status |-> "healthy", httpStatus |-> 200]

\* server.js GET /api/health: the role rule
Classify(role, connected, readOnly) ==
    IF role = "primary"
    THEN IF ~connected \/ readOnly
         THEN [status |-> "degraded", httpStatus |-> 503]
         ELSE [status |-> "healthy", httpStatus |-> 200]
    ELSE IF role = "secondary"
         THEN IF ~connected
              THEN [status |-> "degraded", httpStatus |-> 503]
              ELSE [status |-> "healthy", httpStatus |-> 200]
         ELSE [status |-> "healthy", httpStatus |-> 200]

\* the probe's catch block recording the failure without downgrading the report
ProbeOutcome_KeepsStatus(report, ok) ==
    [status |-> report.status, httpStatus |-> report.httpStatus,
     test |-> IF ok THEN "passed" ELSE "failed"]

\* the probe's catch block setting the HTTP code without the status field
ProbeOutcome_CodeOnly(report, ok) ==
    [status |-> report.status,
     httpStatus |-> IF ok THEN report.httpStatus ELSE 503,
     test |-> IF ok THEN "passed" ELSE "failed"]

\* server.js GET /api/health: the result of `await pool.query('SELECT 1')`
ProbeOutcome(report, ok) ==
    IF ok
    THEN [status |-> report.status, httpStatus |-> report.httpStatus, test |-> "passed"]
    ELSE [status |-> "degraded", httpStatus |-> 503, test |-> "failed"]

\* server.js GET /api/health: the flag after the probe (the handler leaves it alone)
FlagAfterProbe(connected, ok) == connected

\* server.js GET /api/health, up to the probe
HealthStart(s) ==
    /\ Serving /\ variant = "server" /\ Free(s)
    /\ LET r == Classify(APP_ROLE, isDatabaseConnected, isDatabaseReadOnly)
       IN IF isDatabaseConnected /\ pool
          THEN /\ req' = [req EXCEPT ![s] =
                            [IdleReq EXCEPT !.kind = "health", !.pc = "probe",
                                            !.status = r.status,
                                            !.httpStatus = r.httpStatus,
                                            !.calls = 1]]
               /\ UNCHANGED last
          ELSE Respond(s, [NoResponse EXCEPT !.kind = "health", !.code = r.httpStatus,
                                             !.status = r.status])
    /\ UNCHANGED <<peer, page, procVars, pc, tbl, connection, dbVars>>

\* server.js GET /api/health, from the probe's result to the response
HealthProbeDone(s) ==
    /\ variant = "server" /\ req[s].kind = "health" /\ req[s].pc = "probe"
    /\ LET o == ProbeOutcome(req[s], dbAlive)
       IN Respond(s, [NoResponse EXCEPT !.kind = "health", !.code = o.httpStatus,
                                        !.status = o.status, !.test = o.test,
                                        !.calls = req[s].calls])
    /\ isDatabaseConnected' = FlagAfterProbe(isDatabaseConnected, dbAlive)
    /\ UNCHANGED <<peer, page, variant, APP_ROLE, pool, isDatabaseReadOnly, pc, tbl, connection, dbVars>>

\* a probe catch block that leaves the flag alone, as server.js does
FlagAfterProbe000_Keeps(connected, ok) == connected

\* part_000 GET /api/health: the flag after the probe; the catch block clears it
FlagAfterProbe000(connected, ok) == IF ok THEN connected ELSE FALSE

\* part_000 GET /api/health, up to the probe: always status OK, HTTP 200
Health000Start(s) ==
    /\ Serving /\ variant = "part_000" /\ Free(s)
    /\ IF isDatabaseConnected /\ pool
       THEN /\ req' = [req EXCEPT ![s] =
                         [IdleReq EXCEPT !.kind = "health", !.pc = "probe",
                                         !.status = "OK", !.httpStatus = 200,
                                         !.calls = 1]]
            /\ UNCHANGED last
       ELSE Respond(s, [NoResponse EXCEPT !.kind = "health", !.code = 200,
                                          !.status = "OK",
                                          !.test = IF isDatabaseConnected
                                                   THEN "Connected" ELSE "Disconnected"])
    /\ UNCHANGED <<peer, page, procVars, pc, tbl, connection, dbVars>>

\* part_000 GET /api/health, from the probe's result to the response
Health000ProbeDone(s) ==
    /\ variant = "part_000" /\ req[s].kind = "health" /\ req[s].pc = "probe"
    /\ Respond(s, [NoResponse EXCEPT !.kind = "health", !.code = req[s].httpStatus,
                                     !.status = req[s].status,
                                     !.test = IF dbAlive THEN "Connected and responsive"
                                              ELSE "Connection lost",
                                     !.calls = req[s].calls])
    /\ isDatabaseConnected' = FlagAfterProbe000(isDatabaseConnected, dbAlive)
    /\ UNCHANGED <<peer, page, variant, APP_ROLE, pool, isDatabaseReadOnly, pc, tbl, connection, dbVars>>

\* the guard with the connectivity flag left out: if (!pool) return 503
Unavailable_PoolOnly(connected, poolSet) == ~poolSet

\* the read endpoints' guard: if (!isDatabaseConnected || !pool) return 503
Unavailable(connected, poolSet) == ~connected \/ ~poolSet

\* a handler that queries a second time before it gives up
ReadOutcome_RetryOnce(ok, calls) ==
    IF ok THEN [code |-> 200, retry |-> FALSE]
    ELSE IF calls < 2 THEN [code |-> 0, retry |-> TRUE]
    ELSE [code |-> 500, retry |-> FALSE]

\* a read endpoint's answer to its query's result, after `calls` attempts:
\* retry tells whether the handler queries again
ReadOutcome(ok, calls) ==
    IF ok THEN [code |-> 200, retry |-> FALSE] ELSE [code |-> 500, retry |-> FALSE]

\* a DATE value as a number that orders like the date
DateNumber(d) ==
    CASE d = "2025-09-01" -> 20250901
      [] d = "2025-09-02" -> 20250902
      [] d = "2025-09-03" -> 20250903
      [] d = "2025-09-04" -> 20250904

\* an ORDER BY that looks at the first sort key only
SortsBefore_FirstKeyOnly(t, a, b) ==
    CASE t = "GroupMatches" -> DateNumber(a.MatchDate) < DateNumber(b.MatchDate)
      [] t = "Standings"    -> a.Points > b.Points
      [] t = "PlayerStats"  -> a.Runs > b.Runs

\* the ORDER BY clause of table t's SELECT puts row a strictly before row b:
\* ORDER BY MatchDate / Points DESC, GoalDifference DESC / Runs DESC, Wickets DESC
SortsBefore(t, a, b) ==
    CASE t = "GroupMatches" -> DateNumber(a.MatchDate) < DateNumber(b.MatchDate)
      [] t = "Standings"    -> \/ a.Points > b.Points
                               \/ /\ a.Points = b.Points
                                  /\ a.GoalDifference > b.GoalDifference
      [] t = "PlayerStats"  -> \/ a.Runs > b.Runs
                               \/ /\ a.Runs = b.Runs
                                  /\ a.Wickets > b.Wickets

\* the sequences the rows stored[i], i \in S, can be returned in: rows the
\* ORDER BY clause does not tell apart come in an order MySQL is free to pick
RECURSIVE OrderedResults(_, _, _)
OrderedResults(t, stored, S) ==
    IF S = {}
    THEN {<< >>}
    ELSE UNION {{<<stored[i]>> \o rest : rest \in OrderedResults(t, stored, S \ {i})} :
                i \in {k \in S : \A j \in S : ~SortsBefore(t, stored[j], stored[k])}}

\* the possible results of SELECT * FROM t ORDER BY ...
SelectOrdered(t, stored) == OrderedResults(t, stored, 1..Len(stored))

\* GET /api/group-matches, /api/standings, /api/player-stats, up to the query
ReadStart(s, e) ==
    /\ Serving /\ Free(s)
    /\ IF Unavailable(isDatabaseConnected, pool)
       THEN Respond(s, [NoResponse EXCEPT !.kind = "read", !.ep = e, !.code = 503])
       ELSE /\ req' = [req EXCEPT ![s] =
                         [IdleReq EXCEPT !.kind = "read", !.pc = "query", !.ep = e,
                                         !.calls = 1]]
            /\ UNCHANGED last
    /\ UNCHANGED <<peer, page, procVars, pc, tbl, connection, dbVars>>

\* a read endpoint, from the query's result to the response
ReadQueryDone(s) ==
    /\ req[s].kind = "read" /\ req[s].pc = "query"
    /\ LET o == ReadOutcome(dbAlive /\ req[s].ep \in tables, req[s].calls)
           results == IF o.code = 200
                      THEN SelectOrdered(req[s].ep, rows[req[s].ep])
                      ELSE {<< >>}
       IN IF o.retry
          THEN /\ req' = [req EXCEPT ![s].calls = @ + 1]
               /\ UNCHANGED last
          ELSE \E d \in results :
                 Respond(s, [NoResponse EXCEPT !.kind = "read", !.ep = req[s].ep,
                                               !.code = o.code, !.calls = req[s].calls,
                                               !.data = d])
    /\ UNCHANGED <<peer, page, procVars, pc, tbl, connection, dbVars>>

\* the write gate with the role check left out
WriteRefused_FlagOnly(role, readOnly) == readOnly

\* POST /api/match: the two write-refusal checks
WriteRefused(role, readOnly) == readOnly \/ role = "secondary"

\* the validation with Team2 left out
MissingFields_NoTeam2(body) == Falsy(body.MatchDate) \/ Falsy(body.Team1)

\* POST /api/match: if (!MatchDate || !Team1 || !Team2)
MissingFields(body) == Falsy(body.MatchDate) \/ Falsy(body.Team1) \/ Falsy(body.Team2)

\* match rows added by POST /api/match (the seed rows have other dates)
Posted ==
    Len(SelectSeq(rows["GroupMatches"],
                  LAMBDA r : \A i \in 1..Len(SeedMatches) :
                                 r.MatchDate # SeedMatches[i].MatchDate))

Inserting == {s \in Slots : req[s].pc = "insert"}

\* a handler that validates the body before it looks at the flag and the role
PostGate_ValidateFirst(role, readOnly, body) ==
    IF MissingFields(body)
    THEN [code |-> 400, error |-> "Missing required fields"]
    ELSE IF WriteRefused(role, readOnly)
    THEN [code |-> 423,
          error |-> IF readOnly THEN "Database is read-only" ELSE "Secondary instance"]
    ELSE [code |-> 0, error |-> ""]

\* POST /api/match: the checks made before the INSERT, in the order the handler
\* makes them, with the `error` field of the JSON body; code 0: none answered
PostGate(role, readOnly, body) ==
    IF WriteRefused(role, readOnly)
    THEN [code |-> 423,
          error |-> IF readOnly THEN "Database is read-only" ELSE "Secondary instance"]
    ELSE IF MissingFields(body)
    THEN [code |-> 400, error |-> "Missing required fields"]
    ELSE [code |-> 0, error |-> ""]

\* a catch block that reports a failed INSERT as 503, like the read endpoints'
\* guard
InsertOutcome_Unavailable(ok) == IF ok THEN 201 ELSE 503

\* POST /api/match: the status of the INSERT's result, res.status(201) or the
\* catch block's res.status(500)
InsertOutcome(ok) == IF ok THEN 201 ELSE 500

\* POST /api/match, up to the INSERT
PostStart(s, b) ==
    /\ Serving /\ variant = "server" /\ Free(s)
    /\ LET g == PostGate(APP_ROLE, isDatabaseReadOnly, Bodies[b])
       IN IF g.code # 0
          THEN Respond(s, [NoResponse EXCEPT !.kind = "post", !.code = g.code,
                                             !.error = g.error, !.body = b])
          ELSE IF ~pool
          \* pool.query on null throws inside the try block
          THEN Respond(s, [NoResponse EXCEPT !.kind = "post",
                                             !.code = InsertOutcome(FALSE), !.body = b])
          ELSE /\ Posted + Cardinality(Inserting) < MaxInserts
               /\ req' = [req EXCEPT ![s] =
                            [IdleReq EXCEPT !.kind = "post", !.pc = "insert",
                                            !.body = b, !.calls = 1]]
               /\ UNCHANGED last
    /\ UNCHANGED <<peer, page, procVars, pc, tbl, connection, dbVars>>

\* an INSERT that overwrites the newest stored match instead of adding a row
InsertMatchRow_Replace(stored, row) ==
    IF Len(stored) = 0 THEN <<row>> ELSE [stored EXCEPT ![Len(stored)] = row]

\* INSERT INTO GroupMatches (...) VALUES (?, ?, ?, ?, ?): one more stored row
InsertMatchRow(stored, row) == Append(stored, row)

\* POST /api/match, from the INSERT's result to the response
PostInsertDone(s) ==
    /\ req[s].kind = "post" /\ req[s].pc = "insert"
    /\ LET b == Bodies[req[s].body]
           ok == dbAlive /\ ~dbReadOnly /\ "GroupMatches" \in tables
       IN IF ok
          THEN /\ rows' = [rows EXCEPT !["GroupMatches"] =
                             InsertMatchRow(@, [MatchID |-> nextId,
                                                MatchDate |-> b.MatchDate,
                                                Team1 |-> b.Team1, Team2 |-> b.Team2,
                                                Venue |-> b.Venue, Stage |-> b.Stage])]
               /\ nextId' = nextId + 1
               /\ Respond(s, [NoResponse EXCEPT !.kind = "post",
                                                !.code = InsertOutcome(ok),
                                                !.body = req[s].body, !.matchId = nextId,
                                                !.calls = req[s].calls])
          ELSE /\ UNCHANGED <<rows, nextId>>
               /\ Respond(s, [NoResponse EXCEPT !.kind = "post",
                                                !.code = InsertOutcome(ok),
                                                !.body = req[s].body,
                                                !.calls = req[s].calls])
    /\ UNCHANGED <<peer, page, procVars, pc, tbl, connection, dbAlive, dbReadOnly, tables>>

HealthCheck == \E s \in Slots : HealthStart(s) \/ HealthProbeDone(s)

Requests ==
    \/ HealthCheck
    \/ \E s \in Slots : Health000Start(s) \/ Health000ProbeDone(s)
    \/ \E s \in Slots : (\E e \in ReadEndpoints : ReadStart(s, e)) \/ ReadQueryDone(s)
    \/ \E s \in Slots : (\E b \in 1..Len(Bodies) : PostStart(s, b)) \/ PostInsertDone(s)

Environment == DbDrop \/ DbRecover \/ DbBecomeReadOnly \/ DbBecomeWritable

Next == Startup \/ Environment \/ Requests

Spec == Init /\ [][Next]_vars

\* the role-aware server started any number of times in sequence against the
\* same database, taking writes in between
RestartNext ==
    \/ Startup
    \/ Environment
    \/ Restart
    \/ \E s \in Slots : (\E b \in 1..Len(Bodies) : PostStart(s, b)) \/ PostInsertDone(s)

RestartSpec == Init /\ [][RestartNext]_vars

\* the orders in which a table can hold the rows of seq
StoredOrders(seq) ==
    LET n == Len(seq)
        Shuffles == {f \in [1..n -> 1..n] : \A i, j \in 1..n : f[i] = f[j] => i = j}
    IN {[i \in 1..n |-> seq[f[i]]] : f \in Shuffles}

\* module load against a new database, or against one whose tables were loaded
\* beforehand (an import, a replica) with the standings in any stored order
StandingsInit ==
    /\ variant \in Variants
    /\ APP_ROLE = (IF variant = "server" THEN "primary" ELSE "n/a")
    /\ pc = "createPool"
    /\ tbl = 0
    /\ pool = FALSE
    /\ isDatabaseConnected = FALSE
    /\ isDatabaseReadOnly = FALSE
    /\ connection = "none"
    /\ dbAlive = TRUE
    /\ dbReadOnly \in BOOLEAN
    /\ \/ /\ tables = {}
          /\ rows = EmptyRows
       \/ /\ tables = {"GroupMatches", "Standings", "PlayerStats"}
          /\ \E stored \in StoredOrders(SeedStandings) :
                rows = [EmptyRows EXCEPT !["Standings"] = stored]
    /\ nextId = 1
    /\ req = [s \in Slots |-> IdleReq]
    /\ last = NoResponse
    /\ page = PageClosed
    /\ peer = PeerOff

\* startup and the read endpoints, with a database that can drop and recover
StandingsNext ==
    \/ Startup
    \/ DbDrop
    \/ DbRecover
    \/ \E s \in Slots : (\E e \in ReadEndpoints : ReadStart(s, e)) \/ ReadQueryDone(s)

StandingsSpec == StandingsInit /\ [][StandingsNext]_vars

----------------------------------------------------------------------------
(* The frontend (part_001), loaded from the serving instance.  A fetch is     *)
(* answered by the instance's handler, which runs from start to end before    *)
(* the fetch resolves.                                                        *)

\* the `status` field of the body GET /api/health answers with now
HealthReplyStatus ==
    IF variant = "part_000"
    THEN "OK"
    ELSE LET r == Classify(APP_ROLE, isDatabaseConnected, isDatabaseReadOnly)
         IN IF isDatabaseConnected /\ pool
            THEN ProbeOutcome(r, dbAlive).status
            ELSE r.status

\* the connectivity flag after the health handler has answered
FlagAfterHealth ==
    IF isDatabaseConnected /\ pool
    THEN IF variant = "part_000"
         THEN FlagAfterProbe000(isDatabaseConnected, dbAlive)
         ELSE FlagAfterProbe(isDatabaseConnected, dbAlive)
    ELSE isDatabaseConnected

\* what a load function gets from fetch + response.json() for table t
FetchRows(t) ==
    IF Unavailable(isDatabaseConnected, pool)
    THEN {[ok |-> FALSE, array |-> FALSE, rows |-> << >>]}
    ELSE IF ReadOutcome(dbAlive /\ t \in tables, 1).code = 200
         \* part_000 answers the bare array, server.js an object {data: rows, ...}
         THEN {[ok |-> TRUE, array |-> variant = "part_000", rows |-> d] :
                  d \in SelectOrdered(t, rows[t])}
         ELSE {[ok |-> FALSE, array |-> FALSE, rows |-> << >>]}

\* DOMContentLoaded: loadAllData() runs up to the fetch of testConnection();
\* the script has installed its setInterval timer
PageLoad ==
    /\ Serving
    /\ page.pc = "closed"
    /\ page' = [page EXCEPT !.pc = "health", !.timer = "idle"]
    /\ UNCHANGED <<peer, procVars, pc, tbl, connection, dbVars, req, last>>

\* loadAllData(): testConnection() returns; on status 'OK' the three load
\* functions each show 'Loading...' and fetch, otherwise showErrorMessage()
LoadHealthDone ==
    /\ Serving
    /\ page.pc = "health"
    /\ isDatabaseConnected' = FlagAfterHealth
    /\ IF HealthReplyStatus = "OK"
       THEN page' = [page EXCEPT !.pc = "loading", !.region = Undefined,
                                 !.shown = [t \in DOMAIN page.shown |->
                                              [state |-> "loading", rows |-> << >>]]]
       ELSE page' = [page EXCEPT !.pc = "idle", !.region = Undefined, !.error = TRUE]
    /\ UNCHANGED <<peer, variant, APP_ROLE, pool, isDatabaseReadOnly, pc, tbl,
                   connection, dbVars, req, last>>

\* loadMatches() / loadStandings() / loadPlayerStats(): the fetch resolves and
\* the container shows the rows, or 'Failed to load ...'
LoadRowsDone(t) ==
    /\ Serving
    /\ page.pc = "loading" /\ page.shown[t].state = "loading"
    /\ \E got \in FetchRows(t) :
          LET shownT == IF got.ok /\ got.array
                        THEN [state |-> "rows", rows |-> got.rows]
                        \* !response.ok, or .map called on an object
                        ELSE [state |-> "error", rows |-> << >>]
              pending == {u \in DOMAIN page.shown : page.shown[u].state = "loading"}
          IN page' = [page EXCEPT !.shown[t] = shownT,
                                  !.pc = IF pending = {t} THEN "idle" ELSE "loading"]
    /\ UNCHANGED <<peer, procVars, pc, tbl, connection, dbVars, req, last>>

\* setInterval(() => { testConnection(); }, 30000): the callback runs up to
\* the fetch
TimerTick ==
    /\ Serving
    /\ page.timer = "idle"
    /\ page' = [page EXCEPT !.timer = "health"]
    /\ UNCHANGED <<peer, procVars, pc, tbl, connection, dbVars, req, last>>

\* the timer's testConnection() resolves: updateRegionInfo(data.region), and
\* the returned data is dropped
TimerHealthDone ==
    /\ Serving
    /\ page.timer = "health"
    /\ isDatabaseConnected' = FlagAfterHealth
    /\ page' = [page EXCEPT !.timer = "idle", !.region = Undefined]
    /\ UNCHANGED <<peer, variant, APP_ROLE, pool, isDatabaseReadOnly, pc, tbl,
                   connection, dbVars, req, last>>

\* a match row written to the database by another client (the primary
\* instance, an administrator)
DbInsertMatch ==
    /\ dbAlive /\ ~dbReadOnly /\ "GroupMatches" \in tables
    /\ Posted < MaxInserts
    /\ rows' = [rows EXCEPT !["GroupMatches"] =
                  InsertMatchRow(@, [MatchID |-> nextId,
                                     MatchDate |-> Bodies[1].MatchDate,
                                     Team1 |-> Bodies[1].Team1, Team2 |-> Bodies[1].Team2,
                                     Venue |-> Bodies[1].Venue, Stage |-> Bodies[1].Stage])]
    /\ nextId' = nextId + 1
    /\ UNCHANGED <<peer, page, procVars, pc, tbl, connection, dbAlive, dbReadOnly, tables,
                   req, last>>

Frontend ==
    \/ PageLoad
    \/ LoadHealthDone
    \/ \E t \in ReadEndpoints : LoadRowsDone(t)
    \/ TimerTick
    \/ TimerHealthDone

\* module load of either server; nobody touches the page (no click, no change
\* of the year selector)
FrontendInit ==
    /\ variant \in Variants
    /\ APP_ROLE = (IF variant = "server" THEN "primary" ELSE "n/a")
    /\ pc = "createPool"
    /\ tbl = 0
    /\ pool = FALSE
    /\ isDatabaseConnected = FALSE
    /\ isDatabaseReadOnly = FALSE
    /\ connection = "none"
    /\ dbAlive \in BOOLEAN
    /\ dbReadOnly \in BOOLEAN
    /\ \/ /\ tables = {}
          /\ rows = EmptyRows
          /\ nextId = 1
       \/ /\ tables = {"GroupMatches", "Standings", "PlayerStats"}
          /\ rows = [t \in {"GroupMatches", "Standings", "PlayerStats"} |-> SeedRows(t, 1)]
          /\ nextId = Len(SeedMatches) + 1
    /\ req = [s \in Slots |-> IdleReq]
    /\ last = NoResponse
    /\ page = PageClosed
    /\ peer = PeerOff

\* the database stays up or down as it was found; rows can be added to it
FrontendNext == Startup \/ DbInsertMatch \/ Frontend

\* the browser runs every timer callback and every continuation of a settled
\* fetch, and startup runs to its end
FrontendSpec ==
    /\ FrontendInit
    /\ [][FrontendNext]_vars
    /\ WF_vars(Startup)
    /\ WF_vars(PageLoad)
    /\ WF_vars(LoadHealthDone)
    /\ \A t \in ReadEndpoints : WF_vars(LoadRowsDone(t))
    /\ WF_vars(TimerTick)
    /\ WF_vars(TimerHealthDone)

\* module load of two instances of the same program at the same time, against
\* a new, reachable, writable database
TwoInstanceInit ==
    /\ variant \in Variants
    /\ APP_ROLE \in (IF variant = "server" THEN Roles ELSE {"n/a"})
    /\ pc = "createPool"
    /\ tbl = 0
    /\ pool = FALSE
    /\ isDatabaseConnected = FALSE
    /\ isDatabaseReadOnly = FALSE
    /\ connection = "none"
    /\ dbAlive = TRUE
    /\ dbReadOnly = FALSE
    /\ tables = {}
    /\ rows = EmptyRows
    /\ nextId = 1
    /\ req = [s \in Slots |-> IdleReq]
    /\ last = NoResponse
    /\ page = PageClosed
    /\ peer = PeerAt("createPool", 0)

\* the awaits of the two startups interleave in any order
TwoInstanceNext == Startup \/ PeerStartup

TwoInstanceSpec == TwoInstanceInit /\ [][TwoInstanceNext]_vars

\* The traffic router keeps polling /api/health, whatever else is in flight, and
\* Node's event loop resumes every handler whose awaited query has settled.
FairSpec ==
    /\ Spec
    /\ WF_vars(Startup)
    /\ SF_vars(\E s \in Slots : HealthStart(s))
    /\ \A s \in Slots : /\ WF_vars(HealthProbeDone(s))
                        /\ WF_vars(ReadQueryDone(s))
                        /\ WF_vars(PostInsertDone(s))

----------------------------------------------------------------------------
(* Properties of GET /api/health in the role-aware server *)

HealthAnswer == variant = "server" /\ last.kind = "health"

Healthy200 == last.status = "healthy" /\ last.code = 200
Degraded503 == last.status = "degraded" /\ last.code = 503

\* the liveness probe of the last health check succeeded
ProbeOk == last.dbState # "down"

\* C1: on a primary, a health check answers healthy/200 only when the flags say
\* connected and not read-only and the liveness probe succeeds; in every other
\* case, (connected, read-only) included, it answers degraded/503.
C1_PrimaryHealth ==
    (HealthAnswer /\ APP_ROLE = "primary") =>
        IF isDatabaseConnected /\ ~isDatabaseReadOnly /\ ProbeOk
        THEN Healthy200
        ELSE Degraded503

C1_Witness ==
    /\ HealthAnswer /\ APP_ROLE = "primary"
    /\ isDatabaseConnected /\ isDatabaseReadOnly /\ ProbeOk
    /\ Degraded503

\* C2: on a secondary, a health check answers healthy/200 whenever the flag says
\* connected and the liveness probe succeeds, whatever the read-only flag.
C2_SecondaryHealth ==
    (HealthAnswer /\ APP_ROLE = "secondary" /\ isDatabaseConnected /\ ProbeOk)
        => Healthy200

C2_Witness ==
    /\ HealthAnswer /\ APP_ROLE = "secondary"
    /\ isDatabaseConnected /\ isDatabaseReadOnly /\ ProbeOk
    /\ Healthy200

\* C3: whenever the connectivity flag is false a health check answers
\* degraded/503, for every value of APP_ROLE and of the read-only flag.
C3_UnconnectedIsDegraded ==
    (HealthAnswer /\ ~isDatabaseConnected) => Degraded503

\* C4: with the flag true and the pool present the health check runs the
\* liveness probe, and a failing probe forces degraded/503 for every role and
\* every read-only value.
C4_ProbeFailureDegrades ==
    HealthAnswer =>
        /\ (isDatabaseConnected /\ pool) =>
              /\ last.calls = 1
              /\ last.test = (IF ProbeOk THEN "passed" ELSE "failed")
        /\ last.test = "failed" => Degraded503

\* a failed probe on an instance whose flags alone give healthy/200
C4_Witness ==
    /\ HealthAnswer
    /\ last.test = "failed"
    /\ APP_ROLE \in {"secondary", "standby"} \/ ~isDatabaseReadOnly
    /\ isDatabaseConnected
    /\ Degraded503

\* C5: a health check whose liveness probe fails leaves the cached connectivity
\* flag false.
C5_FailedProbeClearsFlag ==
    (HealthAnswer /\ last.test = "failed") => ~isDatabaseConnected

----------------------------------------------------------------------------
(* Properties of the data endpoints *)

\* the required fields of a POST /api/match body are all present
RequiredPresent(b) ==
    /\ b.MatchDate \notin {Undefined, ""}
    /\ b.Team1 \notin {Undefined, ""}
    /\ b.Team2 \notin {Undefined, ""}

\* C6: while the role is secondary or the cached read-only flag is true, every
\* POST /api/match is answered 423 without a database call, no INSERT is in
\* flight and no match row has been added.
C6_WriteRefused ==
    (variant = "server" /\ (APP_ROLE = "secondary" \/ isDatabaseReadOnly)) =>
        /\ Inserting = {}
        /\ Posted = 0
        /\ last.kind = "post" =>
              /\ last.code = 423
              /\ last.calls = 0
              /\ Len(rows["GroupMatches"]) = last.rowsBefore

\* a valid request refused on a secondary whose database would take the write
C6_Witness ==
    /\ variant = "server" /\ APP_ROLE = "secondary" /\ ~isDatabaseReadOnly
    /\ isDatabaseConnected
    /\ last.kind = "post" /\ last.code = 423
    /\ RequiredPresent(Bodies[last.body])
    /\ last.dbState = "writable"

\* C7: a read endpoint answers 503 without a query when the pool is absent or
\* the connectivity flag is false, and issues its query exactly when the pool
\* exists and the flag is true.
C7_ReadUnavailable ==
    [][/\ \* a read answered in this step
          (last' # last /\ last'.kind = "read") =>
              IF last'.calls = 0
              \* by the handler's first step, with no query
              THEN /\ ~isDatabaseConnected \/ ~pool
                   /\ last'.code = 503
                   /\ last'.ep \in ReadEndpoints
                   /\ req' = req
              \* by a handler whose query was in flight
              ELSE \E s \in Slots : /\ req[s].kind = "read" /\ req[s].pc = "query"
                                     /\ req'[s].pc = "idle"
       /\ \* a read handler started in this step: it issues its query
          req' # req =>
              \A s \in Slots :
                  (req[s].pc = "idle" /\ req'[s].kind = "read") =>
                      /\ isDatabaseConnected /\ pool
                      /\ req'[s].pc = "query" /\ req'[s].calls = 1
                      /\ req'[s].ep \in ReadEndpoints
                      /\ last' = last]_vars

\* a read answered 503, with no query, by an instance whose flag is false
C7_Witness ==
    /\ last.kind = "read" /\ last.code = 503 /\ last.calls = 0
    /\ pool /\ ~isDatabaseConnected

\* C8: when a read endpoint's query fails the request is answered 500 at once,
\* after that one query attempt; the process keeps serving and the slot is free
\* for the next request.
C8_QueryFailureIs500 ==
    [][\A s \in Slots :
          (/\ req[s].kind = "read" /\ req[s].pc = "query"
           /\ req'[s] # req[s]
           /\ ~(dbAlive /\ req[s].ep \in tables)) =>
              /\ last'.kind = "read" /\ last'.ep = req[s].ep
              /\ last'.code = 500 /\ last'.calls = 1
              /\ req'[s] = IdleReq
              /\ pc' = "serving"]_vars

C8_Witness ==
    /\ last.kind = "read" /\ last.code = 500 /\ last.calls = 1
    /\ Serving
    /\ \E s \in Slots : Free(s)

\* C9: on a primary whose read-only flag is false, a POST /api/match with
\* MatchDate, Team1 and Team2 whose insert succeeds answers 201 with the
\* generated identifier and adds exactly that one row; a request missing one of
\* the three answers 400 without an insert.
C9_InsertMatch ==
    (variant = "server" /\ APP_ROLE = "primary" /\ ~isDatabaseReadOnly
        /\ last.kind = "post") =>
        LET b == Bodies[last.body]
            stored == rows["GroupMatches"]
        IN /\ ~RequiredPresent(b) =>
                 /\ last.code = 400 /\ last.calls = 0
                 /\ Len(stored) = last.rowsBefore
           /\ (RequiredPresent(b) /\ pool /\ last.dbState = "writable"
                 /\ "GroupMatches" \in tables) => last.code = 201
           /\ last.code = 201 =>
                 /\ RequiredPresent(b)
                 /\ last.calls = 1
                 /\ Len(stored) = last.rowsBefore + 1
                 /\ stored[Len(stored)] =
                        [MatchID |-> last.matchId, MatchDate |-> b.MatchDate,
                         Team1 |-> b.Team1, Team2 |-> b.Team2,
                         Venue |-> b.Venue, Stage |-> b.Stage]
                 /\ \A i \in 1..(Len(stored) - 1) : stored[i].MatchID # last.matchId
           /\ last.code \in {201, 400, 500}

\* the spec's scenario: {MatchDate, Team1, Team2} without Venue and Stage
C9_Witness ==
    /\ variant = "server" /\ APP_ROLE = "primary" /\ ~isDatabaseReadOnly
    /\ last.kind = "post" /\ last.code = 201
    /\ Bodies[last.body].Venue = Undefined /\ Bodies[last.body].Stage = Undefined
    /\ last.matchId = Len(SeedMatches) + 1

\* the database has become read-only since this serving instance last answered
\* a request, and its connection is alive
BecameReadOnly ==
    /\ Serving
    /\ last.kind # "none" /\ last.dbState = "writable"
    /\ dbAlive /\ dbReadOnly

\* C10: if the database of a running primary becomes read-only after startup
\* while the connection stays alive, a health check eventually answers
\* degraded/503 (unless the database goes down or turns writable again first).
C10_ReadOnlyPrimaryFailsOver ==
    (variant = "server" /\ APP_ROLE = "primary" /\ BecameReadOnly)
        ~> \/ ~dbAlive
           \/ ~dbReadOnly
           \/ (last.kind = "health" /\ last.dbState = "read-only" /\ Degraded503)

----------------------------------------------------------------------------
(* Startup failures *)

StartupSteps == {"createPool", "getConnection", "readOnlyQuery", "create", "count", "insert"}

\* startup is over and threw before its connection was released: getConnection
\* failed, or a query on the checked-out connection did
StartupFailed == pc \notin StartupSteps /\ connection # "released"

\* C11: a database connection failure during startup is not fatal: startup goes
\* on to app.listen and the process serves with the connectivity flag false;
\* the read endpoints then answer 503 and, on a primary or a secondary, the
\* health check answers degraded/503.
C11_StartupFailureServes ==
    StartupFailed =>
        /\ pc \in {"listen", "serving"}
        /\ ~isDatabaseConnected
        /\ last.kind = "read" => (last.code = 503 /\ last.calls = 0)
        /\ (last.kind = "health" /\ APP_ROLE \in {"primary", "secondary"}) => Degraded503

\* a primary that could not connect at startup, serving and answering health
C11_Witness ==
    /\ StartupFailed /\ pc = "serving" /\ connection = "none"
    /\ APP_ROLE = "primary"
    /\ last.kind = "health" /\ Degraded503

----------------------------------------------------------------------------
(* Seeding *)

AllTables == {"GroupMatches", "Standings", "PlayerStats"}

\* what identifies a row of table t apart from its generated id
RowKey(t, r) ==
    CASE t = "GroupMatches" -> <<r.MatchDate, r.Team1, r.Team2>>
      [] t = "Standings"    -> <<r.TeamName>>
      [] t = "PlayerStats"  -> <<r.PlayerName>>

\* how many stored rows of table t carry the key of row r
Copies(t, r) ==
    Cardinality({i \in 1..Len(rows[t]) : RowKey(t, rows[t][i]) = RowKey(t, r)})

\* C12: however often startup runs in sequence against the same database, no
\* seed row is stored twice, and a table's seed INSERT is executed only when
\* that table holds no row.
C12_SeedingIdempotent ==
    /\ [](\A t \in AllTables :
            \A j \in 1..Len(SeedRows(t, 1)) : Copies(t, SeedRows(t, 1)[j]) <= 1)
    /\ [][\A t \in AllTables :
            (pc \in StartupSteps /\ rows'[t] # rows[t]) =>
                /\ Len(rows[t]) = 0
                /\ rows'[t] = SeedRows(t, nextId)]_vars

\* a later startup that counted a seeded table holding a posted row and went on
\* to the next table without inserting
C12_Witness ==
    /\ pc = "count" /\ tbl = 2
    /\ Posted = 1
    /\ Len(rows["GroupMatches"]) = Len(SeedMatches) + 1
    /\ Copies("GroupMatches", SeedRows("GroupMatches", 1)[1]) = 1

----------------------------------------------------------------------------
(* The health response as a pair *)

\* C13: every health response of the role-aware server is one of the pairs
\* (healthy, 200) and (degraded, 503): the status is healthy exactly when the
\* code is 200 and degraded exactly when it is 503, whatever the role, the two
\* flags and the probe's outcome.
C13_HealthPairs ==
    HealthAnswer =>
        /\ last.status \in {"healthy", "degraded"}
        /\ last.code \in {200, 503}
        /\ (last.status = "healthy") <=> (last.code = 200)
        /\ (last.status = "degraded") <=> (last.code = 503)

\* a failed probe on an instance the role rule alone calls healthy
C13_Witness ==
    /\ HealthAnswer /\ APP_ROLE = "standby"
    /\ last.calls = 1 /\ last.dbState = "down"
    /\ last.status = "degraded" /\ last.code = 503

----------------------------------------------------------------------------
(* What requests may change in the database *)

\* stored is the beginning of stored2
IsPrefix(stored, stored2) ==
    /\ Len(stored) <= Len(stored2)
    /\ \A i \in 1..Len(stored) : stored2[i] = stored[i]

\* C14: once the server is serving, no step changes a Standings or PlayerStats
\* row or updates or deletes a stored match row; the stored rows change only
\* in the step in which a POST /api/match answers 201, and that step adds
\* exactly one match row; a step of a GET handler changes no row.
C14_RequestsOnlyAppend ==
    [][pc = "serving" =>
          /\ rows' # rows =>
                /\ rows'["Standings"] = rows["Standings"]
                /\ rows'["PlayerStats"] = rows["PlayerStats"]
                /\ IsPrefix(rows["GroupMatches"], rows'["GroupMatches"])
                /\ Len(rows'["GroupMatches"]) = Len(rows["GroupMatches"]) + 1
                /\ last'.kind = "post" /\ last'.code = 201
                /\ \A s \in Slots :
                      req[s].kind \in {"read", "health"} => req'[s] = req[s]
          /\ \A s \in Slots :
                (req[s].kind = "post" /\ req'[s] # req[s] /\ last'.code = 201) =>
                    Len(rows'["GroupMatches"]) = Len(rows["GroupMatches"]) + 1]_vars

\* a read answered from a database that holds the seed rows and a posted match
C14_Witness ==
    /\ pc = "serving"
    /\ last.kind = "read" /\ last.code = 200
    /\ Posted = 1
    /\ IsPrefix(SeedRows("GroupMatches", 1), rows["GroupMatches"])
    /\ rows["Standings"] = SeedStandings /\ rows["PlayerStats"] = SeedPlayers

----------------------------------------------------------------------------
(* The order of the standings *)

\* C15: GET /api/standings returns every stored standings row once, by points
\* descending and, among equal points, by goal difference descending, in
\* whatever order the table holds the rows; when the table holds the four
\* seed rows the result is India, Pakistan, Sri Lanka, Bangladesh.
C15_StandingsSorted ==
    (last.kind = "read" /\ last.ep = "Standings" /\ last.code = 200) =>
        LET d == last.data
            stored == rows["Standings"]
        IN /\ Len(d) = Len(stored)
           /\ \A i \in 1..Len(stored) : \E k \in 1..Len(d) : d[k] = stored[i]
           /\ \A i, j \in 1..Len(d) :
                 i < j => \/ d[i].Points > d[j].Points
                          \/ /\ d[i].Points = d[j].Points
                             /\ d[i].GoalDifference >= d[j].GoalDifference
           /\ Len(stored) = Len(SeedStandings) =>
                 /\ Len(d) = 4
                 /\ <<d[1].TeamName, d[2].TeamName, d[3].TeamName, d[4].TeamName>>
                        = <<"India", "Pakistan", "Sri Lanka", "Bangladesh">>
                 /\ d = SeedStandings

\* the table holds the seed rows in reverse order and the answer is sorted
C15_Witness ==
    /\ last.kind = "read" /\ last.ep = "Standings" /\ last.code = 200
    /\ Len(rows["Standings"]) = 4
    /\ rows["Standings"][1].TeamName = "Bangladesh"
    /\ rows["Standings"][2].TeamName = "Sri Lanka"
    /\ rows["Standings"][4].TeamName = "India"
    /\ last.data = SeedStandings

----------------------------------------------------------------------------
(* GET /api/health in the role-less server *)

Health000Answer == variant = "part_000" /\ last.kind = "health"

\* C16: in the role-less server a health check answers 200 only when the
\* database is connected and responsive, and answers 503 with a degraded
\* payload when the connectivity flag is false or the liveness probe fails.
C16_Part000HealthDegrades ==
    Health000Answer =>
        IF last.test = "Connected and responsive"
        THEN last.code = 200
        ELSE last.code = 503 /\ last.status = "degraded"

----------------------------------------------------------------------------
(* The frontend's 30-second timer *)

\* the page shows the match list it fetched, and the database holds a match
\* row that list does not have
MissingMatch ==
    /\ page.pc = "idle"
    /\ page.shown["GroupMatches"].state = "rows"
    /\ Len(rows["GroupMatches"]) > Len(page.shown["GroupMatches"].rows)

\* C17: with nobody touching the page, a match row added to the database after
\* the page has loaded eventually appears in the page's match list (unless the
\* instance loses its database first), because the 30-second timer reloads
\* the data.
C17_AutoRefresh ==
    MissingMatch ~>
        \/ Len(page.shown["GroupMatches"].rows) = Len(rows["GroupMatches"])
        \/ ~dbAlive
        \/ ~isDatabaseConnected

----------------------------------------------------------------------------
(* Races on the connectivity flag in the role-less server *)

\* the last health check's probe failed and the handler recorded it
FailureRecorded == Health000Answer /\ last.test = "Connection lost"

\* C18: in the role-less server, under every interleaving of reads and health
\* checks: once a health check has recorded a failed probe the flag is false,
\* and while the flag is false no read starts a query and reads are answered
\* 503 with no query; a read that passed the flag test earlier and whose
\* query resolves while the database is down is answered 500 after that one
\* query; a read is never answered anything but 200, 500 or 503, and every
\* request in flight can be completed.
C18_FlagRaceBenign ==
    /\ [](variant = "part_000" =>
            /\ FailureRecorded => ~isDatabaseConnected
            /\ last.kind = "read" =>
                  /\ last.code \in {200, 500, 503}
                  /\ last.code = 503 => (last.calls = 0 /\ ~isDatabaseConnected)
                  /\ last.code = 500 => last.calls = 1
                  /\ last.code = 200 => (last.calls = 1 /\ last.dbState # "down")
            /\ \A s \in Slots :
                  /\ req[s].pc = "query" => ENABLED ReadQueryDone(s)
                  /\ req[s].pc = "probe" => ENABLED Health000ProbeDone(s)
                  /\ req[s].pc \in {"idle", "query", "probe"})
    /\ [][(variant = "part_000" /\ req' # req) =>
            \A s \in Slots :
                /\ (~isDatabaseConnected /\ req[s].pc # "query") => req'[s].pc # "query"
                /\ (req[s].pc = "query" /\ req'[s] # req[s] /\ ~dbAlive) =>
                      /\ req'[s] = IdleReq
                      /\ last'.kind = "read" /\ last'.ep = req[s].ep
                      /\ last'.code = 500 /\ last'.calls = 1]_vars

\* the race: a read passed the flag test, the connection dropped, a health
\* check recorded the failed probe, and the read's query is still in flight
C18_Witness ==
    /\ FailureRecorded
    /\ ~isDatabaseConnected /\ ~dbAlive
    /\ \E s \in Slots : req[s].kind = "read" /\ req[s].pc = "query"

----------------------------------------------------------------------------
(* The connectivity flag over the life of the process *)

\* C19: the connectivity flag goes from false to true only in a step of
\* startup; while the server is serving with the flag false, every step
\* leaves the flag false and the server serving, no read starts a query, and
\* a read is answered 503, also when the database is reachable again.
C19_FlagNeverRecovers ==
    /\ [][(isDatabaseConnected' /\ ~isDatabaseConnected) => pc \in StartupSteps]_vars
    /\ [][(pc = "serving" /\ ~isDatabaseConnected) =>
            /\ pc' = "serving"
            /\ ~isDatabaseConnected'
            /\ req' # req =>
                  \A s \in Slots : req[s].pc # "query" => req'[s].pc # "query"
            /\ (last' # last /\ last'.kind = "read" /\ last'.calls = 0) =>
                  last'.code = 503]_vars

\* the role-less server after a failed probe cleared the flag: the database
\* is back and writable, and a read has just been answered 503
C19_Witness ==
    /\ variant = "part_000" /\ pc = "serving"
    /\ connection = "released"
    /\ ~isDatabaseConnected
    /\ dbAlive
    /\ last.kind = "read" /\ last.code = 503 /\ last.calls = 0
    /\ last.dbState = "writable"

----------------------------------------------------------------------------
(* Startup before requests *)

\* a handler is running or has answered
HandlerRan == last.kind # "none" \/ \E s \in Slots : req[s].pc # "idle"

\* C20: app.listen is called only once database initialization is over: while
\* startup has not reached it no handler is running and none has answered; and
\* from then on startup takes no step, so the pool and the read-only flag keep
\* their values and the connectivity flag is never set.
C20_ListenAfterInit ==
    /\ [](HandlerRan =>
            /\ pc = "serving"
            /\ tbl = 0)
    /\ [][pc = "serving" =>
            /\ pc' = "serving"
            /\ pool' = pool
            /\ isDatabaseReadOnly' = isDatabaseReadOnly
            /\ isDatabaseConnected' => isDatabaseConnected
            /\ tbl' = tbl /\ connection' = connection]_vars

\* the first request is in flight, after a startup that could not connect:
\* initialization finished without success and the server listens
C20_Witness ==
    /\ pc = "serving"
    /\ last.kind = "none"
    /\ \E s \in Slots : req[s].pc # "idle"
    /\ connection = "none"

----------------------------------------------------------------------------
(* The connection startup checks out of the pool *)

\* C21: startup gives back the connection it checked out of the pool before it
\* completes, on its success path and on every failure path: once startup has
\* reached app.listen no connection checked out by it is still held.
C21_StartupReleases ==
    pc \in {"listen", "serving"} => connection # "held"

----------------------------------------------------------------------------
(* Two instances seeding the same database *)

\* both instances have finished their startup
BothStarted == pc \in {"listen", "serving"} /\ peer.pc \in {"listen", "serving"}

\* C22: when two instances run their startup at the same time against the same
\* empty database, then under every interleaving of their count checks and
\* seed inserts each seed row is stored exactly once in its table once both
\* have finished.
C22_ConcurrentSeedOnce ==
    BothStarted =>
        \A t \in AllTables :
            \A j \in 1..Len(SeedRows(t, 1)) : Copies(t, SeedRows(t, 1)[j]) = 1

----------------------------------------------------------------------------
(* POST /api/match: the order of the checks and the codes it answers *)

PostAnswer == variant = "server" /\ last.kind = "post"

\* C23: POST /api/match makes its checks in a fixed order: the read-only flag
\* (423), then role = secondary (423), then the required fields (400), then
\* the insert (201 or 500); so a request with a required field missing that is
\* sent to a secondary, or to an instance whose read-only flag is true, is
\* answered 423 and never 400, and no refused or invalid request is inserted.
C23_PostCheckOrder ==
    PostAnswer =>
        LET b == Bodies[last.body]
        IN /\ isDatabaseReadOnly =>
                 /\ last.code = 423 /\ last.error = "Database is read-only"
                 /\ last.calls = 0
           /\ (~isDatabaseReadOnly /\ APP_ROLE = "secondary") =>
                 /\ last.code = 423 /\ last.error = "Secondary instance"
                 /\ last.calls = 0
           /\ (~isDatabaseReadOnly /\ APP_ROLE # "secondary" /\ MissingFields(b)) =>
                 /\ last.code = 400 /\ last.error = "Missing required fields"
                 /\ last.calls = 0
           /\ (~isDatabaseReadOnly /\ APP_ROLE # "secondary" /\ ~MissingFields(b)) =>
                 last.code \in {201, 500}
           /\ (MissingFields(b) /\ (isDatabaseReadOnly \/ APP_ROLE = "secondary")) =>
                 last.code = 423

\* a request without Team2 sent to a secondary whose read-only flag is true:
\* refused for the flag, not for the role and not for the missing field
C23_Witness ==
    /\ PostAnswer
    /\ APP_ROLE = "secondary" /\ isDatabaseReadOnly
    /\ Falsy(Bodies[last.body].Team2)
    /\ last.code = 423 /\ last.error = "Database is read-only"

\* a POST /api/match that passed the write gate and the validation on a primary
ValidPrimaryPost ==
    /\ PostAnswer
    /\ APP_ROLE = "primary" /\ ~isDatabaseReadOnly
    /\ ~MissingFields(Bodies[last.body])

\* C24 as stated: POST /api/match does not consult the connectivity flag: on a
\* primary whose read-only flag is false, a valid request made while the flag
\* is false or the pool is absent still attempts the insert and is answered
\* 500, never 503; and every POST response code is 201, 400, 423 or 500.
C24_UnconnectedPostIs500 ==
    /\ PostAnswer => last.code \in {201, 400, 423, 500}
    /\ (ValidPrimaryPost /\ (~isDatabaseConnected \/ ~pool)) =>
          /\ last.code = 500
          /\ pool => last.calls = 1

\* C24, amended: POST /api/match does not consult the connectivity flag: on a
\* primary whose read-only flag is false, a valid request still attempts the
\* insert whatever the flag says, and is answered by the insert's outcome: 201
\* when the database is reachable, writable and has the table (also while the
\* flag is false), 500 otherwise, and 500 without a query when the pool is
\* absent; never 503.  Every POST response code is 201, 400, 423 or 500, and
\* a POST in flight is at its INSERT.
C24_PostIgnoresFlag ==
    /\ PostAnswer => last.code \in {201, 400, 423, 500}
    /\ ValidPrimaryPost =>
          /\ pool => last.calls = 1
          /\ ~pool => last.calls = 0
          /\ IF pool /\ last.dbState = "writable" /\ "GroupMatches" \in tables
             THEN last.code = 201
             ELSE last.code = 500
    /\ \A s \in Slots :
          req[s].kind = "post" => (req[s].pc = "insert" /\ req[s].calls = 1)

\* a primary that could not connect at startup: a valid POST went to the
\* database all the same, the INSERT failed, and the answer is 500
C24_Witness ==
    /\ ValidPrimaryPost
    /\ ~isDatabaseConnected /\ pool
    /\ last.code = 500 /\ last.calls = 1

====
